---- MODULE Spec2Model ----
(***************************************************************************)
(* Model of the DataElement state synchronisation of                       *)
(* packages/DataElement/src/DataElement.ts: elementConnected,               *)
(* elementDisconnected, refreshState and the two event listeners that       *)
(* every attach registers, over the shared stateRefs, RootState and the     *)
(* type-level dataProperties record; and of the element mounting of        *)
(* packages/Router/src/DomxRoute.ts: routeStateChanged.                     *)
(***************************************************************************)
EXTENDS Integers, Sequences, FiniteSets, TLC

\* ------------------------------------------------------------------ bounds
MaxConnects == 3      \* elementConnected calls in one behaviour
MaxUnderflow == 2     \* repeated detaches stop at a count of -MaxUnderflow
MaxLog == 40          \* events and handler effects recorded for one operation
MaxCreated == 2       \* document.createElement calls in one behaviour

\* --------------------------------------------------------------- constants
Inst == {"A", "B"}                      \* element instances of the one type
ElementName == "Widget"                 \* ctor.__elementName
PropertyNames == <<"state", "count">>   \* Object.keys(ctor.dataProperties)
StateIds == {"", "a", "b"}              \* "" is the falsy (unset) stateId
Values == {0, 1}                        \* property values
Null == -1                              \* the null of RootState.get
NaN == -999                             \* undefined - 1
Undefined == "undefined"                \* a deleted / never set field

Props == {PropertyNames[k] : k \in 1 .. Len(PropertyNames)}

\* inputs of the state path construction: custom element names may hold a
\* ".", a stateId is any string
PathElementNames == {"x-w", "x-w.state"}
PathPropertyNames == {"state", "count"}
PathStateIds == {"", "a", "count"}

VARIABLES
    prop,             \* prop[el][propertyName]: the element's property value
    stateId,          \* stateId[el]: the element's stateId property
    attached,         \* attached[el]: connected and not since disconnected
    stateRefs,        \* the module-level stateRefs map (partial)
    rootState,        \* RootState (partial map from state path to value)
    dataProperties,   \* ctor.dataProperties: the type-level record
    localListeners,   \* localListeners[el]: listeners added with el.addEventListener
    windowListeners,  \* listeners added with window.addEventListener
    nHandlers,        \* identities handed out to windowEventHandler closures
    nConnects,        \* elementConnected calls so far
    log,              \* what the last operation did, in order
    pathQuery,        \* the state paths last resolved for a pair of inputs
    routeState,       \* DomxRoute: this.$routeData.state
    activeElement,    \* DomxRoute.activeElement (<< >> is null)
    activeSourceElement,  \* DomxRoute.activeSourceElement
    lastSourceElement,    \* DomxRoute.lastSourceElement
    appendTo,         \* DomxRoute.appendTo
    elements,         \* the elements made by document.createElement
    dispatched        \* the route event dispatched by the last call (<< >>: none)

routerVars == <<routeState, activeElement, activeSourceElement,
                lastSourceElement, appendTo, elements, dispatched>>

vars == <<prop, stateId, attached, stateRefs, rootState, dataProperties,
          localListeners, windowListeners, nHandlers, nConnects, log,
          pathQuery, routerVars>>

\* ------------------------------------------------------------ small helpers
Field(rec, f) == IF f \in DOMAIN rec THEN rec[f] ELSE Undefined

DeleteField(rec, f) == [k \in DOMAIN rec \ {f} |-> rec[k]]

SetField(rec, f, v) == [k \in DOMAIN rec \cup {f} |-> IF k = f THEN v ELSE rec[k]]

Entry(op, el, key, val) == [op |-> op, el |-> el, key |-> key, val |-> val]

Overflowed(c) == Len(c.log) >= MaxLog

Record(c, op, el, key, val) ==
    IF Overflowed(c) THEN c
    ELSE [c EXCEPT !.log = Append(@, Entry(op, el, key, val))]

\* ---------------------------------------------------------------- RootState
RootStateGet(root, path) == IF path \in DOMAIN root THEN root[path] ELSE Null

RootStateSet(root, path, value) == SetField(root, path, value)

RootStateDelete(root, path) == DeleteField(root, path)

\* -------------------------------------------------------------- state paths
StateIdPath(id) == IF id # "" THEN "." \o id ELSE ""

\* variant: the stateId suffix is dropped
StatePathNoId(elementName, propertyName, stateIdPath) ==
    elementName \o "." \o propertyName

StatePath(elementName, propertyName, stateIdPath) ==
    elementName \o "." \o propertyName \o stateIdPath

WindowEventName(statePath) == statePath \o "-changed"

ChangeEvent(dp, propertyName) ==
    IF "changeEvent" \in DOMAIN dp THEN dp.changeEvent
    ELSE propertyName \o "-changed"

\* ---------------------------------------------------------- reference count
\* variant: the count restarts at 1 on every attach
IncrementRefRestart(refs, statePath) == SetField(refs, statePath, 1)

IncrementRef(refs, statePath) ==
    SetField(refs, statePath,
        IF statePath \in DOMAIN refs /\ refs[statePath] # 0 /\ refs[statePath] # NaN
        THEN refs[statePath] + 1 ELSE 1)

DecrementRef(refs, statePath) ==
    SetField(refs, statePath,
        IF statePath \in DOMAIN refs /\ refs[statePath] # NaN
        THEN refs[statePath] - 1 ELSE NaN)

\* ------------------------------------------------------------ event dispatch
RECURSIVE DispatchLocal(_, _, _, _), DispatchWindow(_, _, _, _)
RECURSIVE LocalListener(_, _, _), WindowEventHandler(_, _, _)

\* variant: the event carries no isSyncUpdate detail
triggerSyncEventPlain(c, el, changeEvent) ==
    IF Overflowed(c) THEN c
    ELSE DispatchLocal(Record(c, "sync", el, changeEvent, Null),
                       c.localListeners[el], changeEvent, FALSE)

\* el.dispatchEvent(new CustomEvent(changeEvent, {detail:{isSyncUpdate:true}}))
triggerSyncEvent(c, el, changeEvent) ==
    IF Overflowed(c) THEN c
    ELSE DispatchLocal(Record(c, "sync", el, changeEvent, Null),
                       c.localListeners[el], changeEvent, TRUE)

\* window.dispatchEvent(new CustomEvent(name, {detail:{sourceElement:el}}))
triggerGlobalEvent(c, el, windowEventName) ==
    IF Overflowed(c) THEN c
    ELSE DispatchWindow(Record(c, "global", el, windowEventName, Null),
                        c.windowListeners, windowEventName, el)

\* variant: the isSyncUpdate tag is not looked at
LocalListenerUntagged(c, l, isSyncUpdate) ==
    LET v  == c.prop[l.el][l.propertyName]
        c1 == [c EXCEPT !.rootState = RootStateSet(@, l.statePath, v)]
        c2 == Record(c1, "set", l.el, l.statePath, v)
    IN  triggerGlobalEvent(c2, l.el, l.windowEventName)

\* the listener of lines 198-203, closed over el, propertyName, statePath
LocalListener(c, l, isSyncUpdate) ==
    IF isSyncUpdate # TRUE
    THEN LET v  == c.prop[l.el][l.propertyName]
             c1 == [c EXCEPT !.rootState = RootStateSet(@, l.statePath, v)]
             c2 == Record(c1, "set", l.el, l.statePath, v)
         IN  triggerGlobalEvent(c2, l.el, l.windowEventName)
    ELSE c

\* the windowEventHandler of lines 206-211, closed over el, propertyName, statePath
WindowEventHandler(c, h, sourceElement) ==
    IF sourceElement # h.el
    THEN LET v  == RootStateGet(c.rootState, h.statePath)
             c1 == [c EXCEPT !.prop[h.el][h.propertyName] = v]
             c2 == Record(c1, "pull", h.el, h.statePath, v)
         IN  triggerSyncEvent(c2, h.el, h.changeEvent)
    ELSE c

\* the listeners of one target run in registration order
DispatchLocal(c, ls, type, isSyncUpdate) ==
    IF ls = << >> \/ Overflowed(c) THEN c
    ELSE LET l  == Head(ls)
             c1 == IF l.type = type THEN LocalListener(c, l, isSyncUpdate) ELSE c
         IN  DispatchLocal(c1, Tail(ls), type, isSyncUpdate)

DispatchWindow(c, hs, type, sourceElement) ==
    IF hs = << >> \/ Overflowed(c) THEN c
    ELSE LET h  == Head(hs)
             c1 == IF h.type = type THEN WindowEventHandler(c, h, sourceElement) ELSE c
         IN  DispatchWindow(c1, Tail(hs), type, sourceElement)

\* el.dispatchEvent(new CustomEvent(changeEvent)): a genuine change event
dispatchChange(c, el, propertyName) ==
    LET changeEvent == ChangeEvent(c.dataProperties[propertyName], propertyName)
    IN  DispatchLocal(Record(c, "change", el, changeEvent, Null),
                      c.localListeners[el], changeEvent, FALSE)

\* ------------------------------------------------------------------- attach
ResolveDataProperty(dp, propertyName, statePath) ==
    SetField(SetField(SetField(dp,
        "changeEvent", ChangeEvent(dp, propertyName)),
        "statePath", statePath),
        "windowEventName", WindowEventName(statePath))

\* variant: every attach seeds RootState from the element
SetInitialStateReseed(c, el, propertyName, statePath, changeEvent) ==
    Record([c EXCEPT !.rootState =
                RootStateSet(@, statePath, c.prop[el][propertyName])],
           "seed", el, statePath, c.prop[el][propertyName])

SetInitialState(c, el, propertyName, statePath, changeEvent) ==
    LET initialState == RootStateGet(c.rootState, statePath)
    IN  IF initialState = Null
        THEN Record([c EXCEPT !.rootState =
                        RootStateSet(@, statePath, c.prop[el][propertyName])],
                    "seed", el, statePath, c.prop[el][propertyName])
        ELSE triggerSyncEvent(
                Record([c EXCEPT !.prop[el][propertyName] = initialState],
                       "restore", el, statePath, initialState),
                el, changeEvent)

AddLocalListener(c, el, propertyName, statePath, changeEvent, windowEventName) ==
    Record([c EXCEPT !.localListeners[el] = Append(@,
                [type |-> changeEvent, el |-> el, propertyName |-> propertyName,
                 statePath |-> statePath, windowEventName |-> windowEventName])],
           "addLocal", el, changeEvent, Null)

\* variant: the handler is registered but not stored in the type-level record
AddWindowHandlerUnrecorded(c, el, propertyName, statePath, changeEvent, windowEventName) ==
    LET id == c.nHandlers + 1
        c1 == [c EXCEPT
                 !.nHandlers = id,
                 !.windowListeners = Append(@,
                    [type |-> windowEventName, handler |-> id, el |-> el,
                     propertyName |-> propertyName, statePath |-> statePath,
                     changeEvent |-> changeEvent])]
    IN  Record(c1, "addWindow", el, windowEventName, Null)

AddWindowHandler(c, el, propertyName, statePath, changeEvent, windowEventName) ==
    LET id == c.nHandlers + 1
        c1 == [c EXCEPT
                 !.nHandlers = id,
                 !.dataProperties[propertyName] = SetField(@, "windowEventHandler", id),
                 !.windowListeners = Append(@,
                    [type |-> windowEventName, handler |-> id, el |-> el,
                     propertyName |-> propertyName, statePath |-> statePath,
                     changeEvent |-> changeEvent])]
    IN  Record(c1, "addWindow", el, windowEventName, Null)

\* variant: the reference is counted after the listeners are registered
ConnectPropertyCountLast(c, el, propertyName, stateIdPath) ==
    LET dp              == c.dataProperties[propertyName]
        statePath       == StatePath(ElementName, propertyName, stateIdPath)
        changeEvent     == ChangeEvent(dp, propertyName)
        windowEventName == WindowEventName(statePath)
        c1 == [c EXCEPT !.dataProperties[propertyName] =
                            ResolveDataProperty(dp, propertyName, statePath)]
        c3 == SetInitialState(c1, el, propertyName, statePath, changeEvent)
        c4 == AddLocalListener(c3, el, propertyName, statePath, changeEvent,
                               windowEventName)
        c5 == AddWindowHandler(c4, el, propertyName, statePath, changeEvent,
                               windowEventName)
    IN  Record([c5 EXCEPT !.stateRefs = IncrementRef(@, statePath)],
               "inc", el, statePath, Null)

ConnectProperty(c, el, propertyName, stateIdPath) ==
    LET dp              == c.dataProperties[propertyName]
        statePath       == StatePath(ElementName, propertyName, stateIdPath)
        changeEvent     == ChangeEvent(dp, propertyName)
        windowEventName == WindowEventName(statePath)
        c1 == [c EXCEPT !.dataProperties[propertyName] =
                            ResolveDataProperty(dp, propertyName, statePath)]
        c2 == Record([c1 EXCEPT !.stateRefs = IncrementRef(@, statePath)],
                     "inc", el, statePath, Null)
        c3 == SetInitialState(c2, el, propertyName, statePath, changeEvent)
        c4 == AddLocalListener(c3, el, propertyName, statePath, changeEvent,
                               windowEventName)
    IN  AddWindowHandler(c4, el, propertyName, statePath, changeEvent,
                         windowEventName)

RECURSIVE ConnectProperties(_, _, _, _)
ConnectProperties(c, el, names, stateIdPath) ==
    IF names = << >> THEN c
    ELSE ConnectProperties(ConnectProperty(c, el, Head(names), stateIdPath),
                           el, Tail(names), stateIdPath)

elementConnected(c, el, id) ==
    Record(ConnectProperties(c, el, PropertyNames, StateIdPath(id)),
           "connected", el, ElementName, Null)

\* ------------------------------------------------------------------- detach
RemoveWindowListener(hs, type, handler) ==
    SelectSeq(hs, LAMBDA h : ~(h.type = type /\ h.handler = handler))

DisconnectProperty(c, el, propertyName) ==
    LET dp        == c.dataProperties[propertyName]
        statePath == Field(dp, "statePath")
        refs      == DecrementRef(c.stateRefs, statePath)
        handler   == IF "windowEventHandler" \in DOMAIN dp
                     THEN dp.windowEventHandler ELSE 0
        c1 == Record([c EXCEPT !.stateRefs = refs], "dec", el, statePath, Null)
        c2 == IF refs[statePath] = 0
              THEN Record([c1 EXCEPT !.rootState = RootStateDelete(@, statePath)],
                          "delete", el, statePath, Null)
              ELSE c1
        c3 == Record([c2 EXCEPT !.windowListeners =
                        RemoveWindowListener(@, Field(dp, "windowEventName"), handler)],
                     "removeWindow", el, Field(dp, "windowEventName"), Null)
    IN  [c3 EXCEPT !.dataProperties[propertyName] =
            DeleteField(DeleteField(dp, "windowEventName"), "windowEventHandler")]

RECURSIVE DisconnectProperties(_, _, _)
DisconnectProperties(c, el, names) ==
    IF names = << >> THEN c
    ELSE DisconnectProperties(DisconnectProperty(c, el, Head(names)), el, Tail(names))

elementDisconnected(c, el) ==
    Record(DisconnectProperties(c, el, PropertyNames),
           "disconnected", el, ElementName, Null)

\* ------------------------------------------------------------------- router
\* A JavaScript object is the sequence of its <<name, value>> members in key
\* order; a value that may be null carries the isNull flag.
Object(members) == [isNull |-> FALSE, members |-> members]

NullValue == [isNull |-> TRUE, members |-> << >>]

NullSource == "null"

RouteParams == {Object(<< >>)} \cup
               {Object(<< <<"id", v>> >>) : v \in {"1", Undefined}}
QueryParams == {Object(<< >>), Object(<< <<"q", "1">> >>)}
Tails == {NullValue, Object(<< <<"prefix", "/a">> >>)}
defaultState == [matches |-> FALSE, routeParams |-> Object(<< >>),
                 queryParams |-> Object(<< >>), tail |-> NullValue]

\* routeStateChanged reads the params only of a route state that matches
RouteStates == [matches : {TRUE}, routeParams : RouteParams,
                queryParams : QueryParams, tail : Tails]
               \cup {defaultState}
AppendTos == {"parent", "body", "#outlet", "#missing"}
Selectable == {"#outlet"}     \* the selectors that querySelector finds

\* JSON.stringify: members whose value is undefined are left out
RECURSIVE JsonMembers(_)
JsonMembers(members) ==
    IF members = << >> THEN ""
    ELSE LET rest == JsonMembers(Tail(members))
             name == members[1][1]
             val  == members[1][2]
         IN  IF val = Undefined THEN rest
             ELSE "'" \o name \o "':'" \o val \o "'"
                      \o (IF rest = "" THEN "" ELSE "," \o rest)

JsonStringify(obj) ==
    IF obj.isNull THEN "null" ELSE "{" \o JsonMembers(obj.members) \o "}"

hasChanged(obj1, obj2) == JsonStringify(obj1) # JsonStringify(obj2)

\* document.createElement: not in the DOM, no attributes, no properties
createElement ==
    [parent |-> "", attributes |-> [k \in {} |-> ""],
     properties |-> [k \in {} |-> NullValue]]

\* val ? el.setAttribute(name, val) : el.removeAttribute(name), per route param
RECURSIVE setAttributes(_, _)
setAttributes(attributes, members) ==
    IF members = << >> THEN attributes
    ELSE LET name == members[1][1]
             val  == members[1][2]
         IN  setAttributes(IF val \notin {Undefined, ""}
                               THEN SetField(attributes, name, val)
                               ELSE DeleteField(attributes, name),
                           Tail(members))

RECURSIVE setElementProperties(_, _)
setElementProperties(properties, members) ==
    IF members = << >> THEN properties
    ELSE setElementProperties(SetField(properties, members[1][1], members[1][2]),
                              Tail(members))

RouteActiveChangedEvent(type, element, sourceElement, isDefaultPrevented) ==
    [type |-> "route-" \o type, element |-> element,
     sourceElement |-> sourceElement, isDefaultPrevented |-> isDefaultPrevented]

\* ae ? ae.element : document.createElement(this.element)
getElementNew(r) == Len(r.elements) + 1

getElement(r) ==
    IF r.activeElement # << >> THEN r.activeElement[1].element
    ELSE Len(r.elements) + 1

\* the append of the element under the node that appendTo names
appendChild(r, el) ==
    IF r.appendTo = "parent" THEN [r EXCEPT !.elements[el].parent = "root"]
    ELSE IF r.appendTo = "body" THEN [r EXCEPT !.elements[el].parent = "body"]
    ELSE IF r.appendTo \in Selectable
         THEN [r EXCEPT !.elements[el].parent = r.appendTo]
    ELSE r

routeActive(r, isDefaultPrevented) ==
    LET rs  == r.routeState
        el  == getElement(r)
        els == IF el > Len(r.elements) THEN Append(r.elements, createElement)
               ELSE r.elements
        r1  == [r EXCEPT
                 !.elements = [els EXCEPT
                     ![el].attributes = setAttributes(@, rs.routeParams.members),
                     ![el].properties = setElementProperties(@,
                         << <<"queryParams", rs.queryParams>>,
                            <<"parentRoute", rs.tail>> >>)],
                 !.activeElement = << [element |-> el,
                                       routeParams |-> rs.routeParams,
                                       queryParams |-> rs.queryParams,
                                       tail |-> rs.tail] >>,
                 !.activeSourceElement = r.lastSourceElement,
                 !.dispatched = << RouteActiveChangedEvent("active", el,
                                       r.lastSourceElement, isDefaultPrevented) >>]
    IN  IF isDefaultPrevented THEN r1 ELSE appendChild(r1, el)

routeInactiveLate(r, isDefaultPrevented) ==
    LET el == r.activeElement[1].element
        r1 == [r EXCEPT !.dispatched = << RouteActiveChangedEvent("inactive", el,
                                       r.activeSourceElement, isDefaultPrevented) >>]
    IN  IF isDefaultPrevented THEN r1
        ELSE [r1 EXCEPT !.activeElement = << >>,
                        !.activeSourceElement = NullSource,
                        !.elements[el].parent = ""]

routeInactive(r, isDefaultPrevented) ==
    LET el == r.activeElement[1].element
        r1 == [r EXCEPT
                 !.dispatched = << RouteActiveChangedEvent("inactive", el,
                                       r.activeSourceElement, isDefaultPrevented) >>,
                 !.activeElement = << >>,
                 !.activeSourceElement = NullSource]
    IN  IF isDefaultPrevented THEN r1
        ELSE [r1 EXCEPT !.elements[el].parent = ""]

\* which branch routeStateChanged takes
becomesActive(r) ==
    LET rs == r.routeState
        ae == r.activeElement
    IN  \/ ae = << >> /\ rs.matches
        \/ /\ ae # << >>
           /\ rs.matches
           /\ \/ hasChanged(ae[1].routeParams, rs.routeParams)
              \/ hasChanged(ae[1].tail, rs.tail)
              \/ hasChanged(ae[1].queryParams, rs.queryParams)

becomesInactive(r) == r.activeElement # << >> /\ r.routeState.matches = FALSE

routeStateChanged(r, isDefaultPrevented) ==
    IF becomesActive(r) THEN routeActive(r, isDefaultPrevented)
    ELSE IF becomesInactive(r) THEN routeInactive(r, isDefaultPrevented)
    ELSE [r EXCEPT !.dispatched = << >>]

\* ------------------------------------------------------------------ actions
Heap == [prop |-> prop, stateRefs |-> stateRefs, rootState |-> rootState,
         dataProperties |-> dataProperties, localListeners |-> localListeners,
         windowListeners |-> windowListeners, nHandlers |-> nHandlers,
         log |-> << >>]

Commit(c) ==
    /\ prop' = c.prop
    /\ stateRefs' = c.stateRefs
    /\ rootState' = c.rootState
    /\ dataProperties' = c.dataProperties
    /\ localListeners' = c.localListeners
    /\ windowListeners' = c.windowListeners
    /\ nHandlers' = c.nHandlers
    /\ log' = c.log
    /\ UNCHANGED <<pathQuery, routerVars>>

InitData ==
    /\ prop \in [Inst -> [Props -> Values]]
    /\ stateId \in [Inst -> StateIds]
    /\ attached = [el \in Inst |-> FALSE]
    /\ stateRefs = [k \in {} |-> 0]
    /\ rootState = [k \in {} |-> 0]
    /\ dataProperties = [p \in Props |-> [changeEvent |-> p \o "-changed"]]
    /\ localListeners = [el \in Inst |-> << >>]
    /\ windowListeners = << >>
    /\ nHandlers = 0
    /\ nConnects = 0
    /\ log = << >>
    /\ pathQuery = << >>

\* a route before its first route state, its append-to attribute among targets
InitRoute(targets) ==
    /\ routeState = defaultState
    /\ activeElement = << >>
    /\ activeSourceElement = NullSource
    /\ lastSourceElement = Undefined
    /\ appendTo \in targets
    /\ elements = << >>
    /\ dispatched = << >>

\* "parent" is the declared default of append-to
Init == InitData /\ InitRoute({"parent"})

\* connectedCallback
Attach(el) ==
    /\ ~attached[el]
    /\ nConnects < MaxConnects
    /\ Commit(elementConnected(Heap, el, stateId[el]))
    /\ attached' = [attached EXCEPT ![el] = TRUE]
    /\ nConnects' = nConnects + 1
    /\ UNCHANGED stateId

\* disconnectedCallback
Detach(el) ==
    /\ attached[el]
    /\ Commit(elementDisconnected(Heap, el))
    /\ attached' = [attached EXCEPT ![el] = FALSE]
    /\ UNCHANGED <<stateId, nConnects>>

\* refreshState
RefreshState(el) ==
    /\ attached[el]
    /\ nConnects < MaxConnects
    /\ Commit(elementConnected(elementDisconnected(Heap, el), el, stateId[el]))
    /\ nConnects' = nConnects + 1
    /\ UNCHANGED <<stateId, attached>>

\* the element's property is assigned and its change event dispatched
Change(el, propertyName, value) ==
    /\ Commit(dispatchChange([Heap EXCEPT !.prop[el][propertyName] = value],
                             el, propertyName))
    /\ UNCHANGED <<stateId, attached, nConnects>>

\* the element's stateId property is assigned
SetStateId(el, id) ==
    /\ stateId[el] # id
    /\ stateId' = [stateId EXCEPT ![el] = id]
    /\ log' = << >>
    /\ UNCHANGED <<prop, attached, stateRefs, rootState, dataProperties,
                   localListeners, windowListeners, nHandlers, nConnects,
                   pathQuery, routerVars>>

\* disconnectedCallback on an element that is already detached
DetachAgain(el) ==
    /\ ~attached[el]
    /\ localListeners[el] # << >>
    /\ \A p \in Props :
          LET path == Field(dataProperties[p], "statePath")
          IN  path \in DOMAIN stateRefs /\ stateRefs[path] > -MaxUnderflow
    /\ Commit(elementDisconnected(Heap, el))
    /\ UNCHANGED <<stateId, attached, nConnects>>

\* the data elements stay as they are
dataVars == <<prop, stateId, attached, stateRefs, rootState, dataProperties,
              localListeners, windowListeners, nHandlers, nConnects, log>>

\* the state paths of two (elementName, propertyName, stateId) inputs
ResolvePaths(first, second) ==
    /\ pathQuery' =
          [k \in 1 .. 2 |->
              LET t == IF k = 1 THEN first ELSE second
              IN  [elementName |-> t[1], propertyName |-> t[2], stateId |-> t[3],
                   statePath |-> StatePath(t[1], t[2], StateIdPath(t[3]))]]
    /\ UNCHANGED <<dataVars, routerVars>>

Route == [routeState |-> routeState, activeElement |-> activeElement,
          activeSourceElement |-> activeSourceElement,
          lastSourceElement |-> lastSourceElement, appendTo |-> appendTo,
          elements |-> elements, dispatched |-> dispatched]

CommitRoute(r) ==
    /\ routeState' = r.routeState
    /\ activeElement' = r.activeElement
    /\ activeSourceElement' = r.activeSourceElement
    /\ lastSourceElement' = r.lastSourceElement
    /\ appendTo' = r.appendTo
    /\ elements' = r.elements
    /\ dispatched' = r.dispatched
    /\ UNCHANGED <<dataVars, pathQuery>>

\* the state-changed event of the route data: routeStateChanged runs on the
\* new route state; a listener of the route event may prevent its default
RouteStateChanged(rs, isDefaultPrevented) ==
    LET r == [Route EXCEPT !.routeState = rs]
    IN  /\ becomesActive(r) => getElement(r) <= MaxCreated
        /\ CommitRoute(routeStateChanged(r, isDefaultPrevented))

Next ==
    \/ \E el \in Inst : Attach(el)
    \/ \E el \in Inst : Detach(el)
    \/ \E el \in Inst : RefreshState(el)
    \/ \E el \in Inst, p \in Props, v \in Values : Change(el, p, v)
    \/ \E el \in Inst, id \in StateIds : SetStateId(el, id)

Spec == Init /\ [][Next]_vars

\* ----------------------------------------------------- other specifications
\* attach and detach only
NextLifecycle ==
    \/ \E el \in Inst : Attach(el)
    \/ \E el \in Inst : Detach(el)

SpecLifecycle == Init /\ [][NextLifecycle]_vars

\* all instances resolve to the same state paths
InitShared == Init /\ \A e1, e2 \in Inst : stateId[e1] = stateId[e2]

SpecShared == InitShared /\ [][NextLifecycle]_vars

\* attach, detach and genuine change events; stateId values never change
NextEvents ==
    \/ \E el \in Inst : Attach(el)
    \/ \E el \in Inst : Detach(el)
    \/ \E el \in Inst, p \in Props, v \in Values : Change(el, p, v)

SpecEvents == Init /\ [][NextEvents]_vars

\* attach, detach, refreshState and genuine change events
NextRefresh ==
    \/ \E el \in Inst : Attach(el)
    \/ \E el \in Inst : Detach(el)
    \/ \E el \in Inst : RefreshState(el)
    \/ \E el \in Inst, p \in Props, v \in Values : Change(el, p, v)

SpecRefresh == Init /\ [][NextRefresh]_vars

\* two instances with the fixed stateId values "a" and "b"
InitDistinct == Init /\ stateId["A"] = "a" /\ stateId["B"] = "b"

SpecDistinct == InitDistinct /\ [][NextEvents]_vars

\* attach, detach, and detach of an already detached instance
NextDouble ==
    \/ \E el \in Inst : Attach(el)
    \/ \E el \in Inst : Detach(el)
    \/ \E el \in Inst : DetachAgain(el)

SpecDouble == Init /\ [][NextDouble]_vars

\* attach, stateId assignment, refreshState and genuine change events
NextRestate ==
    \/ \E el \in Inst : Attach(el)
    \/ \E el \in Inst, id \in StateIds : SetStateId(el, id)
    \/ \E el \in Inst : RefreshState(el)
    \/ \E el \in Inst, p \in Props, v \in Values : Change(el, p, v)

SpecRestate == Init /\ [][NextRestate]_vars

\* attach, detach and refreshState, no change events
NextCycle ==
    \/ \E el \in Inst : Attach(el)
    \/ \E el \in Inst : Detach(el)
    \/ \E el \in Inst : RefreshState(el)

SpecCycle == Init /\ [][NextCycle]_vars

\* the state path construction alone, on pairs of inputs
InitIdle ==
    /\ InitData
    /\ prop = [el \in Inst |-> [p \in Props |-> 0]]
    /\ stateId = [el \in Inst |-> ""]

PathInputs == PathElementNames \X PathPropertyNames \X PathStateIds

NextPath == \E first, second \in PathInputs : ResolvePaths(first, second)

InitPath == InitIdle /\ InitRoute({"parent"})

SpecPath == InitPath /\ [][NextPath]_vars

\* the route alone; listeners may prevent the default of its events
NextRouter == \E rs \in RouteStates, d \in BOOLEAN : RouteStateChanged(rs, d)

\* a route whose append-to attribute is any of the three kinds of target
InitRouter == InitIdle /\ InitRoute(AppendTos)

SpecRouter == InitRouter /\ [][NextRouter]_vars

\* the route alone; no listener prevents the default of a route event
NextRouterDefault == \E rs \in RouteStates : RouteStateChanged(rs, FALSE)

SpecRouterDefault == InitRouter /\ [][NextRouterDefault]_vars

\* ------------------------------------------------------ vocabulary of claims
\* the state path the element's latest attach resolved for the property
\* (the statePath constant its latest listeners are closed over)
RECURSIVE LastPath(_, _)
LastPath(ls, p) ==
    IF ls = << >> THEN Undefined
    ELSE IF ls[Len(ls)].propertyName = p THEN ls[Len(ls)].statePath
    ELSE LastPath(SubSeq(ls, 1, Len(ls) - 1), p)

ResolvedPath(el, p) == LastPath(localListeners[el], p)

PathOf(p, id) == StatePath(ElementName, p, StateIdPath(id))

Subscribers(p, path) == {el \in Inst : attached[el] /\ ResolvedPath(el, p) = path}

RefsIn(refs, path) == IF path \in DOMAIN refs THEN refs[path] ELSE 0

Refs(path) == RefsIn(stateRefs, path)

EverAttached(el) == localListeners[el] # << >>

\* the last operation was a genuine change event of property p on el
LastChange(el, p) ==
    /\ log # << >>
    /\ log[1] = Entry("change", el, ChangeEvent(dataProperties[p], p), Null)

LogCount(op, el) == Cardinality({k \in 1 .. Len(log) : log[k].op = op /\ log[k].el = el})

\* ------------------------------------------------------------------- claims

\* C1: after any sequence of attach and detach calls (instances with equal or
\* distinct stateId values), the reference count of every state path equals
\* the number of attached instances whose resolved path is that path.
C1_RefCountEqualsSubscribers ==
    \A p \in Props, id \in StateIds :
        Refs(PathOf(p, id)) = Cardinality(Subscribers(p, PathOf(p, id)))

\* C2: the RootState entry of a state path is present while some instance is
\* attached to the path and absent when no instance is attached to it.
C2_EntryIffSubscribed ==
    \A p \in Props, id \in StateIds :
        (PathOf(p, id) \in DOMAIN rootState) <=> (Subscribers(p, PathOf(p, id)) # {})

\* C3: for two instances resolving to the same state path, under every
\* interleaving of their attach and detach calls: while both are attached the
\* reference count of the path is 2, and once both have detached it is 0 and
\* RootState has no entry for the path.
C3_PairRefCount ==
    \A p \in Props, e1, e2 \in Inst :
        e1 # e2 =>
            LET path == PathOf(p, stateId[e1])
            IN  /\ (attached[e1] /\ attached[e2]) => Refs(path) = 2
                /\ (EverAttached(e1) /\ EverAttached(e2)
                        /\ ~attached[e1] /\ ~attached[e2])
                    => (Refs(path) = 0 /\ path \notin DOMAIN rootState)

\* both instances attached, then both detached
C3_Witness ==
    \A el \in Inst : EverAttached(el) /\ ~attached[el]

\* C4: when a genuine change event of property p dispatched on an attached
\* instance returns, RootState holds the instance's value under its state path
\* and every other instance attached to that path has the same value of p.
C4_ChangeReachesSubscribers ==
    \A el \in Inst, p \in Props :
        (LastChange(el, p) /\ attached[el]) =>
            LET path == ResolvedPath(el, p)
            IN  /\ RootStateGet(rootState, path) = prop[el][p]
                /\ \A o \in Subscribers(p, path) : prop[o][p] = prop[el][p]

\* C5: with A and B attached to the same state path, one genuine change event
\* on A makes B receive exactly one sync-tagged change event, B writes nothing
\* to RootState and dispatches no global event, and A pulls nothing.
C5_ExactlyOneSync ==
    \A a, b \in Inst, p \in Props :
        (/\ a # b
         /\ LastChange(a, p)
         /\ attached[a] /\ attached[b]
         /\ ResolvedPath(a, p) = ResolvedPath(b, p)) =>
            /\ LogCount("sync", b) = 1
            /\ LogCount("set", b) = 0
            /\ LogCount("global", b) = 0
            /\ LogCount("pull", a) = 0

\* C6: an attach seeds RootState from the instance when the path has no entry
\* (the instance keeps its value) and otherwise restores the stored value into
\* the instance (RootState keeps its value).
C6_SeedOrRestore ==
    [][\A el \in Inst :
        (~attached[el] /\ attached'[el]) =>
            \A p \in Props :
                LET path == PathOf(p, stateId[el])
                IN  /\ path \in DOMAIN rootState'
                    /\ IF path \notin DOMAIN rootState
                       THEN /\ rootState'[path] = prop[el][p]
                            /\ prop'[el][p] = prop[el][p]
                       ELSE /\ prop'[el][p] = rootState[path]
                            /\ rootState'[path] = rootState[path]]_vars

\* an attach restored the value 1 into an instance that had attached before
C6_Witness ==
    \E k \in 1 .. Len(log) :
        /\ log[k].op = "restore"
        /\ log[k].val = 1
        /\ Len(localListeners[log[k].el]) > Len(PropertyNames)

\* C7: with the fixed stateId values "a" and "b" the two instances have
\* different state paths, and a genuine change on one changes neither the
\* other's property values nor the RootState entries of the other's paths.
C7_DistinctIdsIsolated ==
    [][\A el, o \in Inst, p \in Props :
        (o # el /\ LastChange(el, p)') =>
            /\ prop'[o] = prop[o]
            /\ \A q \in Props :
                /\ PathOf(q, stateId[o]) # PathOf(q, stateId[el])
                /\ RootStateGet(rootState', PathOf(q, stateId[o]))
                       = RootStateGet(rootState, PathOf(q, stateId[o]))]_vars

\* both attached, A changed its value to one B does not have
C7_Witness ==
    /\ attached["A"] /\ attached["B"]
    /\ \E p \in Props : LastChange("A", p) /\ prop["A"][p] # prop["B"][p]

\* C8: with every instance alternating attach and detach, no reference count
\* is negative.
C8_RefCountNonNegative ==
    \A path \in DOMAIN stateRefs : stateRefs[path] >= 0

\* C9: a detach of an already detached instance changes neither the reference
\* counts nor RootState, and leaves no count below zero.
C9_SecondDetachNoEffect ==
    [][\A el \in Inst :
        (/\ ~attached[el] /\ ~attached'[el]
         /\ log' # << >>
         /\ log'[Len(log')] = Entry("disconnected", el, ElementName, Null)) =>
            /\ stateRefs' = stateRefs
            /\ rootState' = rootState
            /\ \A path \in DOMAIN stateRefs' : stateRefs'[path] >= 0]_vars

\* C10: refreshState on an attached instance whose stateId changed moves the
\* instance from the old state path to the new one: the old count drops by
\* one, the new count rises by one, the instance's global listeners are on the
\* new path only, and its later genuine changes write RootState and broadcast
\* at the new path only.
C10_RefreshMovesSubscription ==
    [][\A el \in Inst, p \in Props :
        LET old == ResolvedPath(el, p)
            new == PathOf(p, stateId[el])
        IN  /\ (/\ attached[el] /\ attached'[el]
                /\ nConnects' = nConnects + 1
                /\ log'[Len(log')] = Entry("connected", el, ElementName, Null)
                /\ old # new) =>
                    /\ RefsIn(stateRefs', old) = Refs(old) - 1
                    /\ RefsIn(stateRefs', new) = Refs(new) + 1
                    /\ \A k \in 1 .. Len(windowListeners') :
                        (windowListeners'[k].el = el
                            /\ windowListeners'[k].propertyName = p)
                        => windowListeners'[k].statePath = new
            /\ (LastChange(el, p)' /\ attached[el]) =>
                    \A k \in 1 .. Len(log') :
                        /\ log'[k].op = "set" => log'[k].key = old
                        /\ log'[k].op = "global" => log'[k].key = WindowEventName(old)]_vars

\* the window listeners that belong to one element
OwnHandlers(hs, el) == SelectSeq(hs, LAMBDA h : h.el = el)

LogOps(ops) == {k \in 1 .. Len(log) : log[k].op \in ops}

\* C12: once an instance has detached, a genuine change on another instance
\* does not change its properties, and a detach takes no global listener away
\* from an instance that stays attached.
C12_DetachRemovesOwnListener ==
    [][\A el, o \in Inst :
        o # el =>
            /\ (~attached[el] /\ EverAttached(el)
                    /\ \E p \in Props : LastChange(o, p)')
                => prop'[el] = prop[el]
            /\ (attached[el] /\ ~attached'[el] /\ attached[o])
                => OwnHandlers(windowListeners', o) = OwnHandlers(windowListeners, o)]_vars

\* C13: the dispatch of one change event ends after finitely many handler
\* invocations: the record of an operation never fills up, and in a genuine
\* change only the originating instance writes RootState and broadcasts.
C13_DispatchTerminates ==
    /\ Len(log) < MaxLog
    /\ (log # << >> /\ log[1].op = "change") =>
            \A k \in LogOps({"set", "global"}) : log[k].el = log[1].el

\* a genuine change was pulled by another instance
C13_Witness ==
    /\ log # << >>
    /\ log[1].op = "change"
    /\ \E k \in LogOps({"sync"}) : log[k].el # log[1].el

\* C14: an attach that finds a RootState entry for its path leaves that entry
\* and every other instance's properties unchanged and dispatches no global
\* event, also when the instance carries listeners of earlier attaches.
C14_RestoreIsSilent ==
    [][\A k \in 1 .. Len(log') :
        log'[k].op = "restore" =>
            /\ RootStateGet(rootState', log'[k].key) = RootStateGet(rootState, log'[k].key)
            /\ RootStateGet(rootState', log'[k].key) = log'[k].val
            /\ \A o \in Inst \ {log'[k].el} : prop'[o] = prop[o]
            /\ \A j \in 1 .. Len(log') : log'[j].op \notin {"global", "set", "pull"}]_vars

\* a re-attaching instance restored while the other instance was attached
C14_Witness ==
    \E k \in LogOps({"restore"}) :
        /\ Len(localListeners[log[k].el]) > Len(PropertyNames)
        /\ \A o \in Inst : attached[o]

\* C15: a genuine change event on a detached instance writes nothing to
\* RootState and dispatches no global event.
C15_DetachedIsSilent ==
    \A el \in Inst :
        (~attached[el] /\ \E p \in Props : LastChange(el, p)) =>
            LogOps({"set", "global"}) = {}

\* position of the detach half in the record of the last operation (0: none)
DetachEnd ==
    IF LogOps({"disconnected"}) = {} THEN 0
    ELSE CHOOSE k \in LogOps({"disconnected"}) : TRUE

\* positions of the entries of one kind and key in the attach half
AttachSteps(ops, key) ==
    {k \in LogOps(ops) : k > DetachEnd /\ log[k].key = key}

Before(S, T) == \A i \in S, j \in T : i < j

\* C16: in one attach every property's reference count is incremented before
\* its state is seeded or restored and before its listeners are registered,
\* and the connected chain starts once, after all properties; in one detach
\* the disconnected chain starts once, after every property's decrement.
C16_LifecycleOrder ==
    /\ (log # << >> /\ log[Len(log)].op = "connected") =>
        /\ Cardinality(LogOps({"connected"})) = 1
        /\ \A p \in Props :
            LET el   == log[Len(log)].el
                path == ResolvedPath(el, p)
                inc  == AttachSteps({"inc"}, path)
                init == AttachSteps({"seed", "restore"}, path)
                loc  == AttachSteps({"addLocal"}, ChangeEvent(dataProperties[p], p))
                win  == AttachSteps({"addWindow"}, WindowEventName(path))
            IN  /\ Cardinality(inc) = 1 /\ Cardinality(init) = 1
                /\ Cardinality(loc) = 1 /\ Cardinality(win) = 1
                /\ Before(inc, init) /\ Before(inc, loc) /\ Before(inc, win)
                /\ Before(win, {Len(log)})
    /\ LogOps({"disconnected"}) # {} =>
        /\ Cardinality(LogOps({"disconnected"})) = 1
        /\ Cardinality({k \in LogOps({"dec"}) : k < DetachEnd}) = Len(PropertyNames)
        /\ \A k \in LogOps({"dec", "delete", "removeWindow"}) : k < DetachEnd

\* a refreshState whose attach half restored a value
C16_Witness ==
    /\ log # << >>
    /\ log[Len(log)].op = "connected"
    /\ LogOps({"disconnected"}) # {}
    /\ LogOps({"restore"}) # {}

\* C19 as stated: after every attach the type-level record of each property
\* holds statePath, windowEventName and windowEventHandler of the attaching
\* instance; after every detach all three are cleared and changeEvent is kept.
C19_ResolvedFieldsCleared ==
    \A p \in Props :
        LET dp == dataProperties[p]
        IN  /\ (log # << >> /\ log[Len(log)].op = "connected") =>
                LET el == log[Len(log)].el
                IN  /\ Field(dp, "statePath") = PathOf(p, stateId[el])
                    /\ Field(dp, "windowEventName") = WindowEventName(PathOf(p, stateId[el]))
                    /\ "windowEventHandler" \in DOMAIN dp
                    /\ \E k \in 1 .. Len(windowListeners) :
                        /\ windowListeners[k].handler = dp.windowEventHandler
                        /\ windowListeners[k].el = el
                        /\ windowListeners[k].propertyName = p
            /\ (log # << >> /\ log[Len(log)].op = "disconnected") =>
                /\ "statePath" \notin DOMAIN dp
                /\ "windowEventName" \notin DOMAIN dp
                /\ "windowEventHandler" \notin DOMAIN dp
                /\ "changeEvent" \in DOMAIN dp

\* C19 as amended: after every detach windowEventName and windowEventHandler
\* are cleared, while statePath and changeEvent are kept.
C19_HandlerFieldsCleared ==
    \A p \in Props :
        LET dp == dataProperties[p]
        IN  /\ (log # << >> /\ log[Len(log)].op = "connected") =>
                LET el == log[Len(log)].el
                IN  /\ Field(dp, "statePath") = PathOf(p, stateId[el])
                    /\ Field(dp, "windowEventName") = WindowEventName(PathOf(p, stateId[el]))
                    /\ "windowEventHandler" \in DOMAIN dp
                    /\ \E k \in 1 .. Len(windowListeners) :
                        /\ windowListeners[k].handler = dp.windowEventHandler
                        /\ windowListeners[k].el = el
                        /\ windowListeners[k].propertyName = p
            /\ (log # << >> /\ log[Len(log)].op = "disconnected") =>
                /\ "statePath" \in DOMAIN dp
                /\ "windowEventName" \notin DOMAIN dp
                /\ "windowEventHandler" \notin DOMAIN dp
                /\ "changeEvent" \in DOMAIN dp

\* an instance detached while the other one, attached later, stays attached
C19_Witness ==
    /\ log # << >>
    /\ log[Len(log)].op = "disconnected"
    /\ \E o \in Inst : attached[o] /\ o # log[Len(log)].el
    /\ nConnects >= 2

\* C11 as stated: two (elementName, propertyName, stateId) inputs yield the
\* same state path if and only if the element name is the same, the property
\* name is the same, and the stateId is the same or unset in both.
C11_StatePathInjective ==
    \A i, j \in 1 .. Len(pathQuery) :
        LET a == pathQuery[i]
            b == pathQuery[j]
        IN  a.statePath = b.statePath <=>
                /\ a.elementName = b.elementName
                /\ a.propertyName = b.propertyName
                /\ a.stateId = b.stateId

Mounted == {k \in 1 .. Len(elements) : elements[k].parent # ""}

\* C17: after every call of routeStateChanged, activeElement is non-null
\* exactly when the route state just processed matches, whether or not a
\* listener prevented the default of the route event.
C17_ActiveIffMatches == (activeElement # << >>) <=> routeState.matches

\* a prevented route-inactive event: the element stays in the DOM
C17_Witness ==
    /\ dispatched # << >>
    /\ dispatched[1].type = "route-inactive"
    /\ dispatched[1].isDefaultPrevented
    /\ dispatched[1].element \in Mounted
    /\ ~routeState.matches
    /\ activeElement = << >>

\* C18: when no listener prevents a default, at most one created element is
\* mounted at any time; while the route stays matched the active element is
\* reused and no element is created; when the route stops matching the
\* element is removed.
C18_SingleMount ==
    [][/\ Cardinality(Mounted') <= 1
       /\ (activeElement # << >> /\ routeState'.matches) =>
            /\ Len(elements') = Len(elements)
            /\ activeElement' # << >>
            /\ activeElement'[1].element = activeElement[1].element
       /\ (activeElement # << >> /\ ~routeState'.matches) =>
            Mounted' = {}]_vars

\* the first element was removed; the second one is mounted and was reused
\* for a route state without the id param, so it keeps its id attribute
C18_Witness ==
    /\ Len(elements) = 2
    /\ Mounted = {2}
    /\ activeElement # << >>
    /\ activeElement[1].element = 2
    /\ activeElement[1].routeParams = Object(<< >>)
    /\ "id" \in DOMAIN elements[2].attributes

====
